---- MODULE Spec2Model ----
(***************************************************************************)
(* One SOCKS5 session of the gosocks relay engine: Proxy.handle and the    *)
(* functions it drives (socks.go), on top of the timeout-bounded           *)
(* connectionRead / connectionWrite primitives (connection.go).            *)
(*                                                                         *)
(* The session thread, the background goroutine of every connectionRead /  *)
(* connectionWrite call, the two copy goroutines and the refresh goroutine *)
(* are separate processes.  The client, the connection, the collaborator   *)
(* (Proxyhandler) and the timers are the environment: their choices are    *)
(* existentially quantified inputs of the actions.                         *)
(***************************************************************************)
EXTENDS Integers, Sequences, FiniteSets, TLC

(* ---------------------------- bounds ----------------------------------- *)
\* Write calls one connectionWrite goroutine may issue before the model
\* lets its next Write block for good.
MaxWrites == 2
\* Largest strict fragment (in bytes) a Read may deliver; everything that is
\* pending (up to the chunk capacity) is always possible as well.
MaxFrag == 1

(* ----------------------- wire vocabulary (RFC 1928) -------------------- *)
Version4 == 4
Version5 == 5
MethodNoAuthRequired == 0
MethodGSSAPI == 1
MethodUsernamePassword == 2
RequestReplySucceeded == 0
RequestReplyGeneralFailure == 1
RequestReplyConnectionNotAllowed == 2
RequestReplyNetworkUnreachable == 3
RequestReplyHostUnreachable == 4
RequestReplyConnectionRefused == 5
RequestReplyTTLExpired == 6
RequestReplyCommandNotSupported == 7
RequestReplyAddressTypeNotSupported == 8
RequestReplyMethodNotSupported == 9
AddressTypeIPv4 == 1
AddressTypeDomain == 3
AddressTypeIPv6 == 4

\* chunk capacity of one Read in connectionRead
bufLen == 1024

(* ------------------------------ helpers -------------------------------- *)
Min(a, b) == IF a < b THEN a ELSE b

Prefix(s, n) == SubSeq(s, 1, n)

Suffix(s, n) == SubSeq(s, n + 1, Len(s))

Range(s) == {s[i] : i \in 1..Len(s)}

\* the *Error value: nil, or a reason (the cause is only logged)
NilErr == [isErr |-> FALSE, reason |-> 0]

Err(r) == [isErr |-> TRUE, reason |-> r]

(* ------------------------------ wire codec ----------------------------- *)
\* parseHeader: version, method count N, N method bytes; short buffers fail.
parseHeader(buf) ==
    IF Len(buf) < 2 THEN [ok |-> FALSE, Version |-> 0, Methods |-> <<>>]
    ELSE IF Len(buf) < 2 + buf[2] THEN [ok |-> FALSE, Version |-> 0, Methods |-> <<>>]
    ELSE [ok |-> TRUE, Version |-> buf[1], Methods |-> SubSeq(buf, 3, 2 + buf[2])]

\* length of the address field of a request, -1 when it cannot be told
addressLen(buf) ==
    IF buf[4] = AddressTypeIPv4 THEN 4
    ELSE IF buf[4] = AddressTypeIPv6 THEN 16
    ELSE IF Len(buf) < 5 THEN -1
    ELSE 1 + buf[5]

\* parseRequest: version, command, reserved, address type, address, port.
\* Unknown address type fails with CommandNotSupported, a truncated buffer
\* with GeneralFailure.
parseRequest(buf) ==
    IF Len(buf) < 4 THEN [ok |-> FALSE, err |-> Err(RequestReplyGeneralFailure)]
    ELSE IF buf[4] \notin {AddressTypeIPv4, AddressTypeDomain, AddressTypeIPv6}
         THEN [ok |-> FALSE, err |-> Err(RequestReplyCommandNotSupported)]
    ELSE IF addressLen(buf) < 0 \/ Len(buf) < 4 + addressLen(buf) + 2
         THEN [ok |-> FALSE, err |-> Err(RequestReplyGeneralFailure)]
    ELSE [ok |-> TRUE, err |-> NilErr]

\* the local address of the outward connection, as the reply carries it
BoundAddr == <<10, 0, 0, 1, 4, 56>>

ZeroAddr == <<0, 0, 0, 0, 0, 0>>

\* requestReply(addr, reason): version 5, reason, reserved, IPv4, address,
\* port; a nil addr encodes the zero address and port 0.
requestReply(hasAddr, reason) ==
    <<Version5, reason, 0, AddressTypeIPv4>> \o (IF hasAddr THEN BoundAddr ELSE ZeroAddr)

(* ------------------------------- state --------------------------------- *)
VARIABLES
    pc,           \* where the session thread (handle -> socks) is
    io,           \* per connectionRead/connectionWrite call: its goroutine and channels
    toSend,       \* frames the client has not sent yet
    pending,      \* bytes sent by the client and not yet returned by a Read
    wire,         \* per connectionWrite call: the bytes the client connection accepted from it
    connClosed,   \* conn.Close() was called on the client connection
    remote,       \* outward connection: "none", "open", "closed"
    remoteHasAddr,\* the outward connection is a net.Conn (has a LocalAddr)
    Done,         \* p.Done, the global shutdown signal, is closed
    copy,         \* the two copy goroutines and their completion channels
    wg,           \* the WaitGroup counter
    ctx2,         \* relay scope: "none", "active", "cancelled"
    refresh,      \* Refresh goroutine: "none", "running", "returned"
    socksRet,     \* what socks() returned, once it has
    failedWith,   \* the *Error the failing step produced (history)
    cleanupCalls, \* number of Proxyhandler.Cleanup() calls
    cleanupErr,   \* Cleanup returned an error
    errReplies,   \* reason and address of every error reply attempted (history)
    doneAtRelay,  \* p.Done was closed when the relay started (history)
    buf,          \* what connectionRead returned to handleConnect / handleRequest
    dialErr,      \* the *Error PreHandler returned (nil until it fails)
    log           \* engine steps in the order they happened (history)

vars == <<pc, io, toSend, pending, wire, connClosed, remote, remoteHasAddr, Done,
          copy, wg, ctx2, refresh, socksRet, failedWith, cleanupCalls, cleanupErr,
          errReplies, doneAtRelay, buf, dialErr, log>>

\* the call sites of connectionRead / connectionWrite in one session
ReadCalls == {"greeting", "request"}

WriteCalls == {"method", "reply", "errReply"}

Calls == ReadCalls \cup WriteCalls

\* a call that has not been made
IdleIO == [st |-> "none", data |-> <<>>, ret |-> <<>>, left |-> 0, calls |-> 0,
           doneCh |-> 0, errCh |-> 0, res |-> "none"]

\* connectionRead up to its select: the goroutine is started
SpawnRead == [IdleIO EXCEPT !.st = "running"]

\* connectionWrite up to its select: toWriteLeft := len(data), goroutine started
SpawnWrite(data) == [IdleIO EXCEPT !.st = "running", !.data = data, !.left = Len(data)]

IdleCopy == [st |-> "none", invoked |-> FALSE, ch |-> <<>>, chClosed |-> FALSE,
             reported |-> "none"]

(* ------------------------- the client's frames ------------------------- *)
\* a greeting longer than one Read chunk: version 5, one method, padding
BigGreeting == [i \in 1..(bufLen + 2) |-> IF i = 1 THEN Version5 ELSE IF i = 2 THEN 1 ELSE 0]

Greetings ==
    { <<Version5, 1, MethodNoAuthRequired>>,
      <<Version5, 1, MethodUsernamePassword>>,
      <<Version5, 2, MethodUsernamePassword, MethodNoAuthRequired>>,
      <<Version5, 2, MethodGSSAPI, MethodUsernamePassword>>,
      <<Version5, 0>>,
      <<Version4, 1, MethodNoAuthRequired>>,
      <<6, 1, MethodNoAuthRequired>>,
      <<Version5, 2, MethodNoAuthRequired>>,
      <<Version5>>,
      BigGreeting }

Requests ==
    { <<Version5, 1, 0, AddressTypeIPv4, 127, 0, 0, 1, 0, 80>>,
      <<Version5, 1, 0, AddressTypeDomain, 5, 97>>,
      <<Version5, 1, 0, 9, 0, 0>>,
      <<Version5, 1, 0, AddressTypeIPv4, 127, 0>> }

\* a well-formed greeting and a well-formed request
GoodGreeting == <<Version5, 1, MethodNoAuthRequired>>

GoodRequest == <<Version5, 1, 0, AddressTypeIPv4, 127, 0, 0, 1, 0, 80>>

\* what the client sends in one session: any greeting, and any request after
\* a well-formed greeting
Sessions == {<<g, GoodRequest>> : g \in Greetings} \cup {<<GoodGreeting, r>> : r \in Requests}

\* reasons the dial collaborator may fail with
DialReasons == {RequestReplyConnectionNotAllowed, RequestReplyNetworkUnreachable,
                RequestReplyHostUnreachable}

Init ==
    /\ pc = "start"
    /\ io = [c \in Calls |-> IdleIO]
    /\ toSend \in Sessions
    /\ pending = <<>>
    /\ wire = [c \in WriteCalls |-> <<>>]
    /\ connClosed = FALSE
    /\ remote = "none"
    /\ remoteHasAddr = FALSE
    /\ Done \in BOOLEAN
    /\ copy = [i \in 1..2 |-> IdleCopy]
    /\ wg = 0
    /\ ctx2 = "none"
    /\ refresh = "none"
    /\ socksRet = [returned |-> FALSE, err |-> NilErr]
    /\ failedWith = NilErr
    /\ cleanupCalls = 0
    /\ cleanupErr = FALSE
    /\ errReplies = <<>>
    /\ doneAtRelay = FALSE
    /\ buf = [c \in ReadCalls |-> [ok |-> FALSE, bytes |-> <<>>]]
    /\ dialErr = NilErr
    /\ log = <<>>

(* ---------------------------- environment ------------------------------ *)
\* the client sends its next frame
ClientSend ==
    /\ toSend # <<>>
    /\ ~connClosed
    /\ pending' = pending \o Head(toSend)
    /\ toSend' = Tail(toSend)
    /\ UNCHANGED <<pc, io, wire, connClosed, remote, remoteHasAddr, Done, copy, wg, ctx2,
                   refresh, socksRet, failedWith, cleanupCalls, cleanupErr, errReplies,
                   doneAtRelay, buf, dialErr, log>>

\* the process-wide shutdown signal is given (a session reads it only at the
\* start of its copy goroutines, so later signals are left out)
Shutdown ==
    /\ ~Done
    /\ ~socksRet.returned
    /\ \E i \in 1..2 : copy[i].st \in {"none", "spawned"}
    /\ Done' = TRUE
    /\ UNCHANGED <<pc, io, toSend, pending, wire, connClosed, remote, remoteHasAddr, copy,
                   wg, ctx2, refresh, socksRet, failedWith, cleanupCalls, cleanupErr,
                   errReplies, doneAtRelay, buf, dialErr, log>>

(* ------------------- connectionRead's goroutine ------------------------ *)
\* sizes conn.Read may return: a fragment, or as much as fits the chunk
ReadSizes(avail) ==
    {k \in 1..Min(Len(avail), bufLen) : k <= MaxFrag \/ k = Min(Len(avail), bufLen)}

\* the goroutine after conn.Read returned i bytes without error
ReadLoop(g, chunk) ==
    IF Len(chunk) < bufLen
    THEN [g EXCEPT !.ret = g.ret \o chunk, !.calls = g.calls + 1, !.doneCh = 1, !.st = "exited"]
    ELSE [g EXCEPT !.ret = g.ret \o chunk, !.calls = g.calls + 1]

\* one iteration of the read loop: conn.Read, then errChannel, readDone or loop
ConnRead(c) ==
    /\ io[c].st = "running"
    /\ \/ /\ ~connClosed
          /\ \E k \in ReadSizes(pending) :
                /\ io' = [io EXCEPT ![c] = ReadLoop(io[c], Prefix(pending, k))]
                /\ pending' = Suffix(pending, k)
       \/ /\ io' = [io EXCEPT ![c].errCh = 1, ![c].calls = io[c].calls + 1, ![c].st = "exited"]
          /\ UNCHANGED pending
    /\ UNCHANGED <<pc, toSend, wire, connClosed, remote, remoteHasAddr, Done, copy, wg, ctx2,
                   refresh, socksRet, failedWith, cleanupCalls, cleanupErr, errReplies,
                   doneAtRelay, buf, dialErr, log>>

(* ------------------- connectionWrite's goroutine ----------------------- *)
\* sizes conn.Write(data) may report as written: one byte (a short write when
\* data is longer), or everything
WriteSizes(data) == {k \in 1..Len(data) : k = 1 \/ k = Len(data)}

\* what one conn.Write call puts on the wire: the first k bytes of its argument
Written(data, k) == Prefix(data, k)

\* the buffer passed to conn.Write on every iteration
WriteArg(g) == g.data

\* the goroutine after conn.Write reported `written` bytes without error
WriteLoop(g, written) ==
    IF written = g.left
    THEN [g EXCEPT !.calls = g.calls + 1, !.doneCh = 1, !.st = "exited"]
    ELSE [g EXCEPT !.calls = g.calls + 1, !.left = g.left - written]

\* one iteration of the write loop: conn.Write, then errChannel, writeDone or loop
ConnWrite(c) ==
    /\ io[c].st = "running"
    /\ io[c].calls < MaxWrites
    /\ \/ /\ ~connClosed
          /\ \E k \in WriteSizes(WriteArg(io[c])) :
                /\ io' = [io EXCEPT ![c] = WriteLoop(io[c], k)]
                /\ wire' = [wire EXCEPT ![c] = wire[c] \o Written(WriteArg(io[c]), k)]
       \/ /\ io' = [io EXCEPT ![c].errCh = 1, ![c].calls = io[c].calls + 1, ![c].st = "exited"]
          /\ UNCHANGED wire
    /\ UNCHANGED <<pc, toSend, pending, connClosed, remote, remoteHasAddr, Done, copy, wg,
                   ctx2, refresh, socksRet, failedWith, cleanupCalls, cleanupErr, errReplies,
                   doneAtRelay, buf, dialErr, log>>

\* variant: the select has no deadline branch
SelectOutcomesNoDeadline(c) ==
    (IF io[c].errCh > 0 THEN {"err"} ELSE {}) \cup (IF io[c].doneCh > 0 THEN {"done"} ELSE {})

\* the branches connectionRead's / connectionWrite's select can take: the
\* deadline may fire at any moment, the other two need a message
SelectOutcomes(c) ==
    {"timeout"} \cup (IF io[c].errCh > 0 THEN {"err"} ELSE {})
                \cup (IF io[c].doneCh > 0 THEN {"done"} ELSE {})

\* the call after its select took branch o: the message is received and the
\* call returns o (res)
Recv(c, o) ==
    IF o = "err" THEN [io EXCEPT ![c].errCh = 0, ![c].res = o]
    ELSE IF o = "done" THEN [io EXCEPT ![c].doneCh = 0, ![c].res = o]
    ELSE [io EXCEPT ![c].res = o]

\* variant: a timed-out read hands back the chunks accumulated so far
ReadResultPartial(g, o) ==
    IF o = "done" \/ (o = "timeout" /\ g.ret # <<>>) THEN [ok |-> TRUE, bytes |-> g.ret]
    ELSE [ok |-> FALSE, bytes |-> <<>>]

\* what connectionRead returns when its select took branch o: ret and nil on
\* readDone, nil and an error otherwise
ReadResult(g, o) ==
    IF o = "done" THEN [ok |-> TRUE, bytes |-> g.ret]
    ELSE [ok |-> FALSE, bytes |-> <<>>]

(* ------------------------- the session thread -------------------------- *)
\* variables no step of the session thread outside the relay touches
envVars == <<toSend, pending, wire, Done>>

relayVars == <<copy, wg, ctx2, refresh, doneAtRelay>>

\* handle's deferred conn.Close()
DeferredConnClose(closed) == TRUE

\* variant: the outward connection is left open
DeferredRemoteCloseSkipped(r0) == r0

\* socks' deferred remote.Close(), registered once PreHandler succeeded
DeferredRemoteClose(r0) == IF r0 = "open" THEN "closed" ELSE r0

\* variant: Cleanup is not called
DeferredCleanupSkipped(n) == n

\* socks' deferred Cleanup() call
DeferredCleanup(n) == n + 1

\* socks' result once the deferred Cleanup returned ce: its error is only logged
ResultAfterCleanup(r, ce) == r

\* variant: the error reply always carries GeneralFailure
socksErrorReplyGeneral(reason) == requestReply(FALSE, RequestReplyGeneralFailure)

\* the frame socksErrorReply hands to connectionWrite
socksErrorReply(reason) == requestReply(FALSE, reason)

\* the error replies handle attempts for socks' result r
ErrorReplyFrames(r) == IF r.isErr THEN <<socksErrorReply(r.reason)>> ELSE <<>>

\* handle returns: the deferred conn.Close() runs
HandleReturn(log0) ==
    /\ connClosed' = DeferredConnClose(connClosed)
    /\ log' = log0 \o (IF DeferredConnClose(connClosed) /\ ~connClosed THEN <<"closeConn">> ELSE <<>>)
    /\ pc' = "done"

\* socks returns r: its deferred calls run (cancel, remote.Close, Cleanup),
\* then handle either starts the error reply or returns
SocksReturn(r, io0, log0, remote0) ==
    \E ce \in BOOLEAN :
        LET res == ResultAfterCleanup(r, ce)
            replies == ErrorReplyFrames(res)
            log1 == log0
                    \o (IF remote0 = "open" /\ DeferredRemoteClose(remote0) = "closed"
                        THEN <<"closeRemote">> ELSE <<>>)
                    \o (IF DeferredCleanup(cleanupCalls) > cleanupCalls
                        THEN <<"cleanup">> ELSE <<>>)
                    \o <<"socksReturn">>
        IN  /\ remote' = DeferredRemoteClose(remote0)
            /\ cleanupCalls' = DeferredCleanup(cleanupCalls)
            /\ cleanupErr' = ce
            /\ failedWith' = r
            /\ socksRet' = [returned |-> TRUE, err |-> res]
            /\ errReplies' = errReplies \o replies
            /\ IF replies # <<>>
               THEN /\ io' = [io0 EXCEPT !["errReply"] = SpawnWrite(replies[1])]
                    /\ log' = log1 \o <<"errorReply">>
                    /\ pc' = "errReplySelect"
                    /\ UNCHANGED connClosed
               ELSE /\ io' = io0
                    /\ HandleReturn(log1)

\* handle up to the select of handleConnect's connectionRead
HandleStart ==
    /\ pc = "start"
    /\ io' = [io EXCEPT !["greeting"] = SpawnRead]
    /\ log' = log \o <<"readGreeting">>
    /\ pc' = "greetingSelect"
    /\ UNCHANGED <<envVars, relayVars, connClosed, remote, remoteHasAddr, socksRet,
                   failedWith, cleanupCalls, cleanupErr, errReplies, buf, dialErr>>

\* variant: the version-4 case falls through to the method check
VersionCheckV4Accepted(v) ==
    IF v = Version4 \/ v = Version5 THEN NilErr
    ELSE Err(RequestReplyCommandNotSupported)

\* handleConnect's switch on header.Version
VersionCheck(v) ==
    IF v = Version4 THEN Err(RequestReplyCommandNotSupported)
    ELSE IF v = Version5 THEN NilErr
    ELSE Err(RequestReplyCommandNotSupported)

\* variant: any offered method is accepted
methodSupportedAny(methods) == TRUE

\* handleConnect's scan of header.Methods
methodSupported(methods) == \E i \in 1..Len(methods) : methods[i] = MethodNoAuthRequired

\* variant: a header parse error is reported as GeneralFailure
GreetingCheckGeneral(b) ==
    LET header == parseHeader(b)
    IN  IF ~header.ok THEN Err(RequestReplyGeneralFailure)
        ELSE IF VersionCheck(header.Version).isErr THEN VersionCheck(header.Version)
        ELSE IF ~methodSupported(header.Methods) THEN Err(RequestReplyMethodNotSupported)
        ELSE NilErr

\* handleConnect between its connectionRead and its connectionWrite
GreetingCheck(b) ==
    LET header == parseHeader(b)
    IN  IF ~header.ok THEN Err(RequestReplyConnectionRefused)
        ELSE IF VersionCheck(header.Version).isErr THEN VersionCheck(header.Version)
        ELSE IF ~methodSupported(header.Methods) THEN Err(RequestReplyMethodNotSupported)
        ELSE NilErr

\* the method-selection reply
MethodReply == <<Version5, MethodNoAuthRequired>>

\* handleConnect from the return of connectionRead to the select of connectionWrite
HandleConnectRead ==
    /\ pc = "greetingSelect"
    /\ \E o \in SelectOutcomes("greeting") :
        LET io1 == Recv("greeting", o)
            b == ReadResult(io["greeting"], o)
            e == IF b.ok THEN GreetingCheck(b.bytes) ELSE Err(RequestReplyConnectionRefused)
        IN  /\ buf' = [buf EXCEPT !["greeting"] = b]
            /\ IF e.isErr
               THEN SocksReturn(e, io1, log, remote)
               ELSE /\ io' = [io1 EXCEPT !["method"] = SpawnWrite(MethodReply)]
                    /\ log' = log \o <<"writeMethod">>
                    /\ pc' = "methodSelect"
                    /\ UNCHANGED <<connClosed, remote, socksRet, failedWith, cleanupCalls,
                                   cleanupErr, errReplies>>
    /\ UNCHANGED <<envVars, relayVars, remoteHasAddr, dialErr>>

\* variant: a timed-out write is not treated as a failure
MethodWriteFailedNoTimeout(o) == o = "err"

\* handleConnect's test of connectionWrite's result
MethodWriteFailed(o) == o # "done"

\* handleConnect's connectionWrite returns; on success handleRequest starts its read
HandleConnectWrite ==
    /\ pc = "methodSelect"
    /\ \E o \in SelectOutcomes("method") :
        LET io1 == Recv("method", o)
        IN  IF MethodWriteFailed(o)
            THEN SocksReturn(Err(RequestReplyGeneralFailure), io1, log, remote)
            ELSE /\ io' = [io1 EXCEPT !["request"] = SpawnRead]
                 /\ log' = log \o <<"readRequest">>
                 /\ pc' = "requestSelect"
                 /\ UNCHANGED <<connClosed, remote, socksRet, failedWith, cleanupCalls,
                                cleanupErr, errReplies>>
    /\ UNCHANGED <<envVars, relayVars, remoteHasAddr, buf, dialErr>>

\* handleRequest from the return of connectionRead to the PreHandler call
HandleRequest ==
    /\ pc = "requestSelect"
    /\ \E o \in SelectOutcomes("request") :
        LET io1 == Recv("request", o)
            b == ReadResult(io["request"], o)
            e == IF b.ok THEN parseRequest(b.bytes).err ELSE Err(RequestReplyGeneralFailure)
        IN  /\ buf' = [buf EXCEPT !["request"] = b]
            /\ IF e.isErr
               THEN SocksReturn(e, io1, log, remote)
               ELSE /\ io' = io1
                    /\ pc' = "dial"
                    /\ UNCHANGED <<log, connClosed, remote, socksRet, failedWith,
                                   cleanupCalls, cleanupErr, errReplies>>
    /\ UNCHANGED <<envVars, relayVars, remoteHasAddr, dialErr>>

\* variant: a dial failure is normalised to HostUnreachable
DialFailureNormalised(e) == Err(RequestReplyHostUnreachable)

\* socks' result when PreHandler returned the *Error e: e itself
DialFailure(e) == e

\* Proxyhandler.PreHandler returns an *Error, or an outward connection; then
\* handleRequestReply up to the select of its connectionWrite
PreHandler ==
    /\ pc = "dial"
    /\ \/ \E r \in DialReasons :
            /\ dialErr' = Err(r)
            /\ SocksReturn(DialFailure(Err(r)), io, log \o <<"preHandler">>, remote)
            /\ UNCHANGED remoteHasAddr
       \/ \E addr \in BOOLEAN : \E encodeFails \in (IF addr THEN BOOLEAN ELSE {FALSE}) :
            /\ remoteHasAddr' = addr
            /\ UNCHANGED dialErr
            /\ IF encodeFails
               THEN SocksReturn(Err(RequestReplyGeneralFailure), io,
                                log \o <<"preHandler">>, "open")
               ELSE /\ remote' = "open"
                    /\ io' = [io EXCEPT !["reply"] =
                                 SpawnWrite(requestReply(addr, RequestReplySucceeded))]
                    /\ log' = log \o <<"preHandler", "writeReply">>
                    /\ pc' = "replySelect"
                    /\ UNCHANGED <<connClosed, socksRet, failedWith, cleanupCalls,
                                   cleanupErr, errReplies>>
    /\ UNCHANGED <<envVars, relayVars, buf>>

\* handleRequestReply's connectionWrite returns; on success socks starts the
\* relay: ctx2, wg.Add(2), the two copy goroutines and the Refresh goroutine
HandleRequestReply ==
    /\ pc = "replySelect"
    /\ \E o \in SelectOutcomes("reply") :
        LET io1 == Recv("reply", o)
        IN  IF o # "done"
            THEN /\ SocksReturn(Err(RequestReplyGeneralFailure), io1, log, remote)
                 /\ UNCHANGED relayVars
            ELSE /\ io' = io1
                 /\ ctx2' = "active"
                 /\ wg' = 2
                 /\ copy' = [i \in 1..2 |-> [IdleCopy EXCEPT !.st = "spawned"]]
                 /\ refresh' = "running"
                 /\ doneAtRelay' = Done
                 /\ log' = log \o <<"startRelay">>
                 /\ pc' = "wait"
                 /\ UNCHANGED <<connClosed, remote, socksRet, failedWith, cleanupCalls,
                                cleanupErr, errReplies>>
    /\ UNCHANGED <<envVars, remoteHasAddr, buf, dialErr>>

(* --------------------------- relay goroutines -------------------------- *)
\* variant: the shutdown signal is not consulted
ShutdownGateIgnored(done) == FALSE

\* the select on p.Done with a default branch: the case is taken iff p.Done is closed
ShutdownGate(done) == done

\* what a copy goroutine puts on its errChannel for the strategy's result
CopyReport(failed) == IF failed THEN "err" ELSE "nil"

\* variant: the goroutine closes its channel without sending the value
CopyFinishNoReport(g, v) ==
    [g EXCEPT !.st = "finished", !.chClosed = TRUE, !.reported = v]

\* the goroutine reports v and exits: errChannel <- v, close(errChannel), wg.Done()
CopyFinish(g, v) ==
    [g EXCEPT !.st = "finished", !.ch = g.ch \o <<v>>, !.chClosed = TRUE, !.reported = v]

\* copyClientToRemote (i = 1) / copyRemoteToClient (i = 2) up to the strategy call
CopyStart(i) ==
    /\ copy[i].st = "spawned"
    /\ IF ShutdownGate(Done)
       THEN /\ copy' = [copy EXCEPT ![i] = CopyFinish(copy[i], "nil")]
            /\ wg' = wg - 1
            /\ log' = log \o <<IF i = 1 THEN "copy1Reported" ELSE "copy2Reported">>
       ELSE /\ copy' = [copy EXCEPT ![i].st = "copying", ![i].invoked = TRUE]
            /\ UNCHANGED <<wg, log>>
    /\ UNCHANGED <<pc, io, envVars, connClosed, remote, remoteHasAddr, ctx2, refresh,
                   socksRet, failedWith, cleanupCalls, cleanupErr, errReplies, doneAtRelay,
                   buf, dialErr>>

\* the copy strategy returns (nil or an error) and the goroutine reports it
CopyReturn(i) ==
    /\ copy[i].st = "copying"
    /\ \E failed \in BOOLEAN :
          copy' = [copy EXCEPT ![i] = CopyFinish(copy[i], CopyReport(failed))]
    /\ wg' = wg - 1
    /\ log' = log \o <<IF i = 1 THEN "copy1Reported" ELSE "copy2Reported">>
    /\ UNCHANGED <<pc, io, envVars, connClosed, remote, remoteHasAddr, ctx2, refresh,
                   socksRet, failedWith, cleanupCalls, cleanupErr, errReplies, doneAtRelay,
                   buf, dialErr>>

\* Proxyhandler.Refresh(ctx2) returns once its scope is cancelled
RefreshReturn ==
    /\ refresh = "running"
    /\ ctx2 = "cancelled"
    /\ refresh' = "returned"
    /\ UNCHANGED <<pc, io, envVars, connClosed, remote, remoteHasAddr, copy, wg, ctx2,
                   socksRet, failedWith, cleanupCalls, cleanupErr, errReplies, doneAtRelay,
                   buf, dialErr, log>>

\* a receive from a copy goroutine's errChannel: the buffered value, or the
\* zero value (nil) of a closed and empty channel
ChanValue(g) == IF g.ch # <<>> THEN Head(g.ch) ELSE "nil"

\* variant: only the client->outward channel is examined
RelayResultFirstOnly(e1, e2) ==
    IF e1 # "nil" THEN Err(RequestReplyHostUnreachable) ELSE NilErr

\* socks' reduction of the two reported values to its result
RelayResult(e1, e2) ==
    IF e1 # "nil" THEN Err(RequestReplyHostUnreachable)
    ELSE IF e2 # "nil" THEN Err(RequestReplyHostUnreachable)
    ELSE NilErr

\* variant: the wait ends when the first copy goroutine is done
WaitDoneEarly(n) == n <= 1

\* wg.Wait() returns once the counter is zero
WaitDone(n) == n = 0

\* a receive from the errChannel does not block: a value is buffered or the
\* channel is closed
ChanReady(g) == g.ch # <<>> \/ g.chClosed

\* wg.Wait() returns; cancel(); the two receives; socks returns
WaitReturn ==
    /\ pc = "wait"
    /\ WaitDone(wg)
    /\ ChanReady(copy[1])
    /\ ChanValue(copy[1]) = "nil" => ChanReady(copy[2])
    /\ ctx2' = "cancelled"
    /\ copy' = [i \in 1..2 |->
                  IF i = 1 \/ ChanValue(copy[1]) = "nil"
                  THEN [copy[i] EXCEPT !.ch = IF copy[i].ch # <<>> THEN Tail(copy[i].ch) ELSE <<>>]
                  ELSE copy[i]]
    /\ SocksReturn(RelayResult(ChanValue(copy[1]), ChanValue(copy[2])), io,
                   log \o <<"cancelCtx2">>, remote)
    /\ UNCHANGED <<envVars, remoteHasAddr, wg, refresh, doneAtRelay, buf, dialErr>>

\* socksErrorReply's connectionWrite returns (its error is only logged); handle returns
ErrorReplyReturn ==
    /\ pc = "errReplySelect"
    /\ \E o \in SelectOutcomes("errReply") :
          io' = Recv("errReply", o)
    /\ HandleReturn(log)
    /\ UNCHANGED <<envVars, relayVars, remote, remoteHasAddr, socksRet, failedWith,
                   cleanupCalls, cleanupErr, errReplies, buf, dialErr>>

Next ==
    \/ ClientSend
    \/ Shutdown
    \/ HandleStart
    \/ \E c \in ReadCalls : ConnRead(c)
    \/ \E c \in WriteCalls : ConnWrite(c)
    \/ HandleConnectRead
    \/ HandleConnectWrite
    \/ HandleRequest
    \/ PreHandler
    \/ HandleRequestReply
    \/ \E i \in 1..2 : CopyStart(i)
    \/ \E i \in 1..2 : CopyReturn(i)
    \/ RefreshReturn
    \/ WaitReturn
    \/ ErrorReplyReturn

Spec == Init /\ [][Next]_vars

\* The session thread is scheduled and every per-call timer fires: a select
\* of the session thread that can take a branch eventually takes one, and
\* wg.Wait() returns once the counter is zero.  Nothing is assumed about the
\* client, the connection's Read and Write, or the collaborator.
LiveSpec ==
    /\ Init
    /\ [][Next]_vars
    /\ WF_vars(HandleStart)
    /\ WF_vars(HandleConnectRead)
    /\ WF_vars(HandleConnectWrite)
    /\ WF_vars(HandleRequest)
    /\ WF_vars(HandleRequestReply)
    /\ WF_vars(WaitReturn)
    /\ WF_vars(ErrorReplyReturn)

(* ------------------------- observation helpers ------------------------- *)
\* position of the first occurrence of step e in the log, 0 if it never happened
Pos(e) ==
    LET at == {i \in 1..Len(log) : log[i] = e}
    IN  IF at = {} THEN 0 ELSE CHOOSE i \in at : \A j \in at : i <= j

\* number of times step e happened
Count(e) == Cardinality({i \in 1..Len(log) : log[i] = e})

\* both steps happened, a first
Before(a, b) == Pos(a) > 0 /\ Pos(b) > 0 /\ Pos(a) < Pos(b)

\* the bytes call c put on the client's wire, in order
SentBy(c) == wire[c]

\* the greeting handleConnect parsed, if its read succeeded
Header == parseHeader(buf["greeting"].bytes)

GreetingParsed == buf["greeting"].ok /\ Header.ok

RelayStarted == ctx2 # "none"

(* ------------------------------- claims -------------------------------- *)

\* C1: once the relay has started and socks() has returned, the result is a
\* HostUnreachable error if at least one copy strategy reported an error and
\* nil if both reported nil, whichever direction reported first, and the
\* relay scope ctx2 was cancelled before socks() returned.
C1_RelayOutcome ==
    (RelayStarted /\ socksRet.returned) =>
        /\ \A i \in 1..2 : copy[i].reported \in {"nil", "err"}
        /\ (\E i \in 1..2 : copy[i].reported = "err")
              => socksRet.err = Err(RequestReplyHostUnreachable)
        /\ (\A i \in 1..2 : copy[i].reported = "nil") => socksRet.err = NilErr
        /\ ctx2 = "cancelled"
        /\ Before("cancelCtx2", "socksReturn")

\* the outward->client copy reported an error first, the client->outward
\* copy reported nil after it, and socks() returned HostUnreachable
C1_Witness ==
    /\ socksRet.returned
    /\ Before("copy2Reported", "copy1Reported")
    /\ copy[2].reported = "err"
    /\ copy[1].reported = "nil"
    /\ socksRet.err = Err(RequestReplyHostUnreachable)

\* C2: if p.Done is closed before the relay starts, no copy strategy is ever
\* invoked, both copy goroutines report nil, and the session result is
\* success with no error reply.
C2_ShutdownNoOp ==
    (RelayStarted /\ doneAtRelay) =>
        /\ \A i \in 1..2 : ~copy[i].invoked /\ copy[i].st \in {"spawned", "finished"}
        /\ \A i \in 1..2 : copy[i].st = "finished" => copy[i].reported = "nil"
        /\ socksRet.returned => (socksRet.err = NilErr /\ errReplies = <<>>)
        /\ io["errReply"].st = "none"

\* a session that started its relay after the shutdown signal has finished
C2_Witness ==
    /\ doneAtRelay
    /\ pc = "done"
    /\ \A i \in 1..2 : copy[i].reported = "nil"
    /\ socksRet.err = NilErr

\* the greeting is version 5 and does not offer NoAuthenticationRequired
NoAuthMissing ==
    /\ GreetingParsed
    /\ Header.Version = Version5
    /\ MethodNoAuthRequired \notin Range(Header.Methods)

\* C3: a version-5 greeting without NoAuthenticationRequired fails the
\* session with MethodNotSupported; no method-selection reply is written, no
\* request read is issued and PreHandler is not called.
C3_MethodNotSupported ==
    NoAuthMissing =>
        /\ socksRet.returned
        /\ socksRet.err = Err(RequestReplyMethodNotSupported)
        /\ io["method"].st = "none"
        /\ SentBy("method") = <<>>
        /\ io["request"].st = "none"
        /\ io["reply"].st = "none"
        /\ "preHandler" \notin Range(log)
        /\ remote = "none"

\* such a greeting with a non-empty method list was handled to the end
C3_Witness ==
    /\ NoAuthMissing
    /\ Header.Methods # <<>>
    /\ pc = "done"

\* C4 (as claimed): whenever handleConnect's connectionWrite returned nil,
\* the bytes it put on the wire are exactly the 2-byte frame {5, 0}, short
\* writes included.
C4_MethodReplyExact ==
    io["method"].res = "done" => SentBy("method") = MethodReply

\* the greeting's version is not 5
WrongVersion == GreetingParsed /\ Header.Version # Version5

\* C5: a greeting whose version is not 5 fails with CommandNotSupported
\* before any method check or method-selection write; handle attempts the
\* error reply carrying CommandNotSupported and then closes the connection.
C5_VersionRejected ==
    WrongVersion =>
        /\ socksRet.returned
        /\ socksRet.err = Err(RequestReplyCommandNotSupported)
        /\ io["method"].st = "none"
        /\ SentBy("method") = <<>>
        /\ io["errReply"].st # "none"
        /\ io["errReply"].data = requestReply(FALSE, RequestReplyCommandNotSupported)
        /\ io["errReply"].data[2] = RequestReplyCommandNotSupported
        /\ Count("errorReply") = 1
        /\ pc = "done" => (connClosed /\ Before("errorReply", "closeConn"))
        /\ pc # "done" => ~connClosed

\* a version-4 greeting that offers NoAuthenticationRequired was rejected,
\* its error reply reached the wire whole and the connection is closed
C5_Witness ==
    /\ WrongVersion
    /\ Header.Version = Version4
    /\ MethodNoAuthRequired \in Range(Header.Methods)
    /\ SentBy("errReply") = requestReply(FALSE, RequestReplyCommandNotSupported)
    /\ pc = "done"

\* C6: a session whose socks() result is an Error attempts exactly one error
\* reply, built from that Error's reason and a nil address; the outcome of
\* that write changes nothing (no second reply) and the session ends with the
\* client connection closed.  A successful session attempts no error reply.
C6_OneErrorReply ==
    /\ socksRet.returned =>
          /\ socksRet.err.isErr =>
                /\ errReplies = <<requestReply(FALSE, socksRet.err.reason)>>
                /\ io["errReply"].data = requestReply(FALSE, socksRet.err.reason)
                /\ Count("errorReply") = 1
                /\ io["errReply"].res # "none" => pc = "done"
          /\ ~socksRet.err.isErr =>
                /\ errReplies = <<>>
                /\ io["errReply"].st = "none"
                /\ Count("errorReply") = 0
                /\ SentBy("errReply") = <<>>
          /\ pc = "done" => connClosed
    /\ ~socksRet.returned => (errReplies = <<>> /\ io["errReply"].st = "none")

\* the error reply of a failed session failed itself, and the session ended
C6_Witness ==
    /\ socksRet.err.isErr
    /\ io["errReply"].res \in {"err", "timeout"}
    /\ Len(errReplies) = 1
    /\ pc = "done"
    /\ connClosed

\* C7 (as claimed): once the success reply has been written to the client, no
\* error reply frame is written to it.
C7_NoErrorAfterSuccess ==
    SentBy("reply") # <<>> => SentBy("errReply") = <<>>

\* the handshake step that failed before the relay, or the relay, is over
CleanupDue ==
    IF RelayStarted
    THEN Before("copy1Reported", "cleanup") /\ Before("copy2Reported", "cleanup")
    ELSE failedWith.isErr

\* C8: Cleanup is called exactly once per session, on every exit path of
\* socks(), only after the handshake failed or both copy goroutines reported;
\* an error returned by Cleanup does not change the session result.
C8_CleanupOnce ==
    /\ cleanupCalls = Count("cleanup")
    /\ socksRet.returned => (cleanupCalls = 1 /\ CleanupDue)
    /\ ~socksRet.returned => cleanupCalls = 0
    /\ socksRet.returned => socksRet.err = failedWith
    /\ (socksRet.returned /\ ~failedWith.isErr) => (errReplies = <<>> /\ io["errReply"].st = "none")

\* a relay ended in success, Cleanup returned an error, and the session ended
C8_Witness ==
    /\ RelayStarted
    /\ pc = "done"
    /\ cleanupErr
    /\ cleanupCalls = 1
    /\ socksRet.err = NilErr

\* C9: when handle() has returned the client connection is closed, and
\* whenever PreHandler returned an outward connection it is closed by the
\* time socks() returns.
C9_ConnectionsClosed ==
    /\ pc = "done" => connClosed
    /\ socksRet.returned => remote \in {"none", "closed"}
    /\ (socksRet.returned /\ io["reply"].st # "none") =>
          (remote = "closed" /\ Before("closeRemote", "socksReturn"))
    /\ remote = "none" => "closeRemote" \notin Range(log)

\* the success reply write failed or timed out after a successful dial, and
\* handle() returned with both connections closed
C9_Witness ==
    /\ pc = "done"
    /\ io["reply"].res \in {"err", "timeout"}
    /\ remote = "closed"
    /\ connClosed

\* the handshake steps in their order
Steps == <<"readGreeting", "writeMethod", "readRequest", "preHandler", "writeReply",
           "startRelay">>

\* C10: the handshake steps are strictly sequential and terminal on the first
\* failure: each step starts only after the previous one succeeded, none is
\* executed twice, and none after socks() returned.
C10_Sequential ==
    /\ \A k \in 1..Len(Steps) : Count(Steps[k]) <= 1
    /\ \A k \in 2..Len(Steps) :
          Pos(Steps[k]) > 0 => Before(Steps[k - 1], Steps[k])
    /\ \A k \in 1..Len(Steps) :
          (Pos(Steps[k]) > 0 /\ Pos("socksReturn") > 0) => Before(Steps[k], "socksReturn")
    /\ io["method"].st # "none" =>
          (buf["greeting"].ok /\ ~GreetingCheck(buf["greeting"].bytes).isErr)
    /\ io["request"].st # "none" => io["method"].res = "done"
    /\ "preHandler" \in Range(log) =>
          (io["request"].res = "done" /\ buf["request"].ok
             /\ parseRequest(buf["request"].bytes).ok)
    /\ io["reply"].st # "none" => ("preHandler" \in Range(log) /\ remote # "none")
    /\ (RelayStarted \/ refresh # "none" \/ \E i \in 1..2 : copy[i].st # "none") =>
          (io["reply"].res = "done" /\ Pos("startRelay") > 0)
    /\ (socksRet.returned /\ failedWith.isErr /\ ~RelayStarted) =>
          \A i \in 1..2 : copy[i].st = "none"

\* a session went through every handshake step, relayed and ended
C10_Witness ==
    /\ pc = "done"
    /\ \A k \in 1..Len(Steps) : Count(Steps[k]) = 1
    /\ \A i \in 1..2 : copy[i].invoked

\* C11: when PreHandler returns an Error, socks() returns that Error with its
\* reason unchanged; no success reply is written, no copy or refresh activity
\* is started, and the error reply carries the collaborator's reason.
C11_DialErrorAsIs ==
    dialErr.isErr =>
        /\ socksRet.returned
        /\ socksRet.err = dialErr
        /\ io["reply"].st = "none"
        /\ SentBy("reply") = <<>>
        /\ ~RelayStarted
        /\ refresh = "none"
        /\ \A i \in 1..2 : copy[i].st = "none"
        /\ errReplies = <<requestReply(FALSE, dialErr.reason)>>
        /\ io["errReply"].data[2] = dialErr.reason

\* the dial failed with NetworkUnreachable and that error reply reached the
\* wire before handle() returned
C11_Witness ==
    /\ dialErr = Err(RequestReplyNetworkUnreachable)
    /\ SentBy("errReply") = requestReply(FALSE, RequestReplyNetworkUnreachable)
    /\ pc = "done"

\* the client has sent its greeting only, and handleConnect's connectionRead
\* has returned data
GreetingReadReturned ==
    /\ buf["greeting"].ok
    /\ Len(toSend) = 1
    /\ io["request"].st = "none"

\* C12 (as claimed): when the connection delivers a frame in several chunks,
\* connectionRead returns all of its bytes: none of the frame is left unread.
C12_ReadAllFragments ==
    GreetingReadReturned => pending = <<>>

\* C13: a connectionRead / connectionWrite call whose goroutine has produced
\* no terminal event when the call returns has returned a timeout error; a
\* read returns either everything its goroutine accumulated with a nil error
\* or no data with an error, also when chunks had been accumulated before the
\* error or timeout; each call returns one of data, error, timeout.
C13_OneOutcome ==
    /\ \A c \in Calls :
          /\ io[c].res \in {"none", "done", "err", "timeout"}
          /\ (io[c].res # "none" /\ io[c].st = "running") => io[c].res = "timeout"
          /\ io[c].res \in {"done", "err"} => io[c].st = "exited"
          /\ io[c].st = "none" => io[c].res = "none"
    /\ \A c \in ReadCalls :
          /\ io[c].res = "done" => (buf[c].ok /\ buf[c].bytes = io[c].ret)
          /\ io[c].res \in {"none", "err", "timeout"} => (~buf[c].ok /\ buf[c].bytes = <<>>)
    /\ \A c \in {"greeting", "method", "request", "reply"} :
          io[c].res \in {"err", "timeout"} => (socksRet.returned /\ socksRet.err.isErr)

\* the greeting read timed out after a full chunk had been accumulated, and
\* handleConnect got no data
C13_Witness ==
    /\ io["greeting"].res = "timeout"
    /\ Len(io["greeting"].ret) >= bufLen
    /\ ~buf["greeting"].ok
    /\ socksRet.err = Err(RequestReplyConnectionRefused)

\* C14 (as claimed): whenever a connectionWrite call returned nil, the bytes
\* the connection accepted from it are exactly its data buffer, every byte
\* once and in order, whatever short writes occurred.
C14_WriteAllExact ==
    \A c \in WriteCalls : io[c].res = "done" => SentBy(c) = io[c].data

\* the call failed: its select took the error or the deadline branch
Failed(c) == io[c].res \in {"err", "timeout"}

\* C15: every failure yields exactly one reason before any reply is written:
\* ConnectionRefused for a read error, read timeout or header parse error in
\* the greeting phase; GeneralFailure for a read error or timeout in the
\* request phase; the parser's own reason for a request parse failure;
\* GeneralFailure for a failed or timed-out write of the method-selection
\* reply or of the success reply.
C15_ReasonPerPhase ==
    /\ Failed("greeting") => failedWith = Err(RequestReplyConnectionRefused)
    /\ (buf["greeting"].ok /\ ~Header.ok) => failedWith = Err(RequestReplyConnectionRefused)
    /\ Failed("method") => failedWith = Err(RequestReplyGeneralFailure)
    /\ Failed("request") => failedWith = Err(RequestReplyGeneralFailure)
    /\ (buf["request"].ok /\ ~parseRequest(buf["request"].bytes).ok) =>
          (failedWith = parseRequest(buf["request"].bytes).err /\ failedWith.isErr)
    /\ Failed("reply") => failedWith = Err(RequestReplyGeneralFailure)
    /\ failedWith.isErr => socksRet.returned
    /\ errReplies # <<>> =>
          (failedWith.isErr /\ errReplies = <<requestReply(FALSE, failedWith.reason)>>)
    /\ (socksRet.returned /\ failedWith.isErr) => Len(errReplies) = 1

\* a request with an unknown address type was rejected with the parser's
\* reason, after a greeting phase without failure
C15_Witness ==
    /\ buf["request"].ok
    /\ parseRequest(buf["request"].bytes).err = Err(RequestReplyCommandNotSupported)
    /\ failedWith = Err(RequestReplyCommandNotSupported)
    /\ pc = "done"

\* a truncated greeting was refused
C15_WitnessGreeting ==
    /\ buf["greeting"].ok
    /\ ~Header.ok
    /\ failedWith = Err(RequestReplyConnectionRefused)

\* the step a copy goroutine logs when it reports
Reported(i) == IF i = 1 THEN "copy1Reported" ELSE "copy2Reported"

\* C16: the completion of one copy direction does not cancel the relay scope:
\* ctx2 is cancelled only after both copy goroutines have reported, and while
\* one of them has not, socks() keeps waiting and does not return.
C16_NoSiblingCancel ==
    /\ ctx2 = "cancelled" =>
          \A i \in 1..2 : copy[i].st = "finished" /\ Before(Reported(i), "cancelCtx2")
    /\ (RelayStarted /\ \E i \in 1..2 : copy[i].st # "finished") =>
          /\ ctx2 = "active"
          /\ refresh = "running"
          /\ pc = "wait"
          /\ ~socksRet.returned
          /\ remote = "open"

\* the client->outward copy ended with an error while the other direction is
\* still copying: the scope is active and socks() is waiting
C16_Witness ==
    /\ copy[1].reported = "err"
    /\ copy[2].st = "copying"
    /\ ctx2 = "active"
    /\ pc = "wait"

\* where the session thread waits in the select of a connectionRead or
\* connectionWrite call
SelectPcs == {"greetingSelect", "methodSelect", "requestSelect", "replySelect",
              "errReplySelect"}

\* C17: provided the timer fires, every connectionRead / connectionWrite call
\* returns even if the underlying Read or Write never does, so the handshake
\* never hangs: from every select the session thread moves on until handle()
\* returns with the client connection closed, unless it reaches the dial or
\* the relay, which a client that never sends a byte cannot; once the relay
\* has started, handle() returns if and only if both copy goroutines have
\* reported.
C17_NoSilentHang ==
    /\ (pc \in SelectPcs \cup {"start"}) ~> (pc \in {"dial", "wait", "done"})
    /\ [](pc \in {"dial", "wait"} => Len(toSend) < 2)
    /\ [](pc = "done" => connClosed)
    /\ []((RelayStarted /\ pc = "done") => \A i \in 1..2 : copy[i].st = "finished")
    /\ (RelayStarted /\ \A i \in 1..2 : copy[i].st = "finished") ~> (pc = "done")

\* the client never sent a byte and the Read never returned; the greeting
\* read timed out and handle() has returned with the connection closed
C17_Witness ==
    /\ Len(toSend) = 2
    /\ io["greeting"].res = "timeout"
    /\ io["greeting"].st = "running"
    /\ io["greeting"].calls = 0
    /\ pc = "done"
    /\ connClosed

\* C18 (as claimed): a write attempt whose Writes keep succeeding terminates:
\* as long as its goroutine runs, toWriteLeft is a byte count that a
\* successful Write can report, so that the loop can still end with writeDone.
C18_WriteAttemptEnds ==
    \A c \in WriteCalls :
        io[c].st = "running" => io[c].left \in 1..Len(io[c].data)

\* the engine's Write (Read) attempts still outstanding on the client
\* connection: goroutines of connectionWrite (connectionRead) that have not exited
RunningWrites == {c \in WriteCalls : io[c].st = "running"}

RunningReads == {c \in ReadCalls : io[c].st = "running"}

\* C19 (as claimed): at any time at most one engine-issued Write and at most
\* one engine-issued Read is outstanding on the client connection; the error
\* reply write is not issued while an abandoned write is still outstanding.
C19_SingleWriter ==
    /\ Cardinality(RunningWrites) <= 1
    /\ Cardinality(RunningReads) <= 1

\* C19 (amended): at most one connectionWrite call that has not returned yet
\* is outstanding, and at most one Read; next to the error reply's write
\* there can be one more outstanding write, the attempt abandoned by a
\* timed-out method-selection or success-reply write, and never a third.
C19_SingleLiveWriter ==
    /\ Cardinality({c \in RunningWrites : io[c].res = "none"}) <= 1
    /\ Cardinality(RunningWrites) <= 2
    /\ Cardinality(RunningWrites) = 2 =>
          /\ "errReply" \in RunningWrites
          /\ \E c \in {"method", "reply"} : c \in RunningWrites /\ io[c].res = "timeout"
    /\ \A c \in RunningWrites : io[c].res \in {"none", "timeout"}
    /\ Cardinality(RunningReads) <= 1

\* the method-selection write timed out and its attempt is still outstanding
\* while the error reply's write is outstanding too
C19_Witness ==
    /\ io["method"].st = "running"
    /\ io["method"].res = "timeout"
    /\ io["errReply"].st = "running"
    /\ io["errReply"].res = "none"
    /\ ~connClosed

\* the teardown steps in their order
Teardown == <<"cancelCtx2", "closeRemote", "cleanup", "errorReply", "closeConn">>

\* C20: each copy goroutine puts exactly one value on its channel before it
\* signals the wait group, so after the wait socks() reads the reported
\* values without blocking (never the zero value of a closed empty channel);
\* no connection is closed while a copy goroutine is running; and teardown
\* goes: both copies reported, ctx2 cancelled, outward connection closed,
\* Cleanup called, error reply (if any) written, client connection closed.
C20_TeardownOrder ==
    /\ RelayStarted => wg = Cardinality({i \in 1..2 : copy[i].st # "finished"})
    /\ \A i \in 1..2 :
          /\ copy[i].st = "finished" <=> copy[i].reported # "none"
          /\ copy[i].st = "finished" => (copy[i].chClosed /\ Count(Reported(i)) = 1)
          /\ (copy[i].st = "finished" /\ pc = "wait") => copy[i].ch = <<copy[i].reported>>
          /\ Len(copy[i].ch) <= 1
          /\ copy[i].st \in {"spawned", "copying"} => (~connClosed /\ remote = "open")
    /\ (pc = "wait" /\ wg = 0) => (ChanReady(copy[1]) /\ ChanReady(copy[2]))
    /\ (RelayStarted /\ socksRet.returned) =>
          failedWith = RelayResult(copy[1].reported, copy[2].reported)
    /\ RelayStarted =>
          /\ \A k \in 1..Len(Teardown) : Count(Teardown[k]) <= 1
          /\ \A k \in 1..Len(Teardown) : \A l \in (k + 1)..Len(Teardown) :
                (Pos(Teardown[k]) > 0 /\ Pos(Teardown[l]) > 0)
                   => Before(Teardown[k], Teardown[l])
          /\ \A i \in 1..2 : Pos("cancelCtx2") > 0 => Before(Reported(i), "cancelCtx2")
          /\ Pos("errorReply") > 0 => Pos("cleanup") > 0
          /\ Pos("cleanup") > 0 => Pos("closeRemote") > 0
          /\ Pos("closeRemote") > 0 => Pos("cancelCtx2") > 0
          /\ pc = "done" =>
                /\ Before("cleanup", "closeConn")
                /\ socksRet.err.isErr => Before("errorReply", "closeConn")

\* a relay whose outward->client copy failed was torn down to the end, error
\* reply included
C20_Witness ==
    /\ RelayStarted
    /\ copy[1].reported = "nil"
    /\ copy[2].reported = "err"
    /\ Pos("errorReply") > 0
    /\ pc = "done"

====
